---- MODULE Spec2Model ----
(***************************************************************************)
(* Rating reconciliation of the photo organizer: the list page's conflict  *)
(* detectors and Apply flow (src/app/list/page.tsx), the aggregator        *)
(* (src/utils/ratings-aggregator.ts), the batch apply route                *)
(* (src/app/api/set-ratings/route.ts), the rating route                    *)
(* (src/app/api/ratings/route.ts), the rating store                        *)
(* (src/controllers/database.ts) and the metadata writer                   *)
(* (src/controllers/exiftool.ts).                                          *)
(*                                                                         *)
(* A name (file name or photo identity) is the sequence of its parts       *)
(* between dots: "a.b.jpg" is <<"a", "b", "jpg">>.  A Map is a function    *)
(* whose DOMAIN is the set of its keys.  null is Null.                     *)
(***************************************************************************)
EXTENDS Integers, Sequences, FiniteSets, TLC

\* ---------------------------------------------------------------- bounds
\* Ratings are 1..5 in the program; the model uses 1..MaxRating.
MaxRating == 2

Null == -1
Ratings == 1..MaxRating
\* what exiftool can report for a file: no Rating tag, 0, or a star rating
TagValues == {Null} \cup (0..MaxRating)
\* what the rating store can hold after the two routes: null or a star rating
StoredValues == {Null} \cup Ratings

\* ------------------------------------------------------------ identities
idA == <<"a">>
idB == <<"b">>
idAB == <<"a", "b">>
PlainIds == {idA, idB}
DottedIds == {idA, idAB}
\* iteration order of the Maps and of the directory listing
IdOrder == <<idA, idB, idAB>>

JpgName(id) == id \o <<"jpg">>
RawName(id) == id \o <<"arw">>

\* src/app/list/page.tsx getFileId: cut at the last '.'
getFileId(filename) ==
  IF Len(filename) = 1 THEN filename ELSE SubSeq(filename, 1, Len(filename) - 1)

\* src/app/api/set-ratings/route.ts getBaseName: path.parse(fileName).name
\* (a leading '.' does not start an extension)
getBaseName(fileName) ==
  IF Len(fileName) = 1 \/ (Len(fileName) = 2 /\ fileName[1] = "")
  THEN fileName
  ELSE SubSeq(fileName, 1, Len(fileName) - 1)

\* -------------------------------------------------------------- sequences
RECURSIVE SelectIds(_, _, _)
\* the members of S in the order of seq, from position i on
SelectIds(seq, S, i) ==
  IF i > Len(seq) THEN << >>
  ELSE (IF seq[i] \in S THEN <<seq[i]>> ELSE << >>) \o SelectIds(seq, S, i + 1)

SeqOf(S) == SelectIds(IdOrder, S, 1)

Range(seq) == {seq[i] : i \in DOMAIN seq}

\* ------------------------------------------------------------------ state
VARIABLES
  db,               \* rating store: identity -> [rating, overRuleFileRating]
  jpgFiles,         \* image files of the folder: file name -> Rating tag
  rawFiles,         \* RAW files of the raw subfolder: file name -> Rating tag
  imageFiles,       \* list page: file names shown
  ratings,          \* list page: Map fileId -> rating record
  exifData,         \* list page: Map fileId -> JPG rating
  rawExifData,      \* list page: Map fileId -> RAW rating
  selectedConflict, \* list page: conflict shown in the modal, or NoConflict
  pc,               \* position of the Apply flow
  request,          \* body of the POST to /api/set-ratings
  updateJobs,       \* set-ratings route: queued file updates
  dbUpdatesCount,   \* set-ratings route
  results,          \* results of updateRatings
  response,         \* JSON answer of the set-ratings route
  badFiles,         \* the queued files that are corrupt or locked in this batch
  log,              \* effects of the current batch, in order
  flagged,          \* the identities whose overrule flag the last reset cleared
  activeImage,      \* viewer: file name of imageFiles[activeIndex], << >> if none
  activeExifData,   \* viewer: Rating of the EXIF data of the active image
  isExifLoading,    \* viewer: the EXIF effect of the active image is pending
  ratingConflictData, \* viewer: conflict shown in the modal, or NoConflict
  route,            \* the page the browser shows: "/list" or "/" (the viewer)
  resolution,       \* the choice of the conflict modal made by the last step
  inFlight          \* list page: the rating POSTs that have no response yet

vars == <<db, jpgFiles, rawFiles, imageFiles, ratings, exifData, rawExifData,
          selectedConflict, pc, request, updateJobs, dbUpdatesCount, results,
          response, badFiles, log, flagged, activeImage, activeExifData,
          isExifLoading, ratingConflictData, route, resolution, inFlight>>

diskVars == <<db, jpgFiles, rawFiles>>
pageVars == <<imageFiles, ratings, exifData, rawExifData, selectedConflict>>
routeVars == <<request, updateJobs, dbUpdatesCount, results, response, badFiles, log>>
viewerVars == <<activeImage, activeExifData, isExifLoading, ratingConflictData, route>>

NoConflict == [fileName |-> << >>, exifRating |-> Null, dbRating |-> Null]
EmptyRequest == [dbRatings |-> << >>, jpgRatings |-> << >>, rawRatings |-> << >>]
NoResponse == [status |-> 0]

\* ------------------------------------------------------------ rating store
\* src/controllers/database.ts upsertRating: INSERT .. ON CONFLICT(id) DO
\* UPDATE.  The flag is stored as 1/0, null stays null; an argument that was
\* not passed (undefined) is not null and not truthy, so it is stored as 0.
SqlFlag(overRuleFileRating) ==
  IF overRuleFileRating = "null" THEN Null
  ELSE IF overRuleFileRating = "true" THEN 1 ELSE 0

upsertRating(store, fileId, rating, overRuleFileRating) ==
  [id \in DOMAIN store \cup {fileId} |->
     IF id = fileId
     THEN [rating |-> rating, overRuleFileRating |-> SqlFlag(overRuleFileRating)]
     ELSE store[id]]

\* resetOverRuleFlag is imported by the set-ratings route but is not among
\* the sources; modelled from the specification: clears the flag on every
\* record, ratings untouched.
\* resetOverRuleFlag of a store whose reset forgets the ratings as well
resetOverRuleFlagAndRatings(store) ==
  [id \in DOMAIN store |-> [rating |-> Null, overRuleFileRating |-> 0]]

resetOverRuleFlag(store) ==
  [id \in DOMAIN store |-> [store[id] EXCEPT !.overRuleFileRating = 0]]

\* ---------------------------------------------------------------- loading
\* src/app/list/page.tsx loadFolder: exifDataMap keeps the files whose
\* Rating is not null, keyed by getFileId
LoadExif(files) ==
  LET rated == {f \in DOMAIN files : files[f] /= Null}
  IN [id \in {getFileId(f) : f \in rated} |->
        files[CHOOSE f \in rated : getFileId(f) = id]]

\* ratingsMap.set(rating.id, rating) for every row of getAllRatings
LoadRatings(store) == store

\* ------------------------------------------------------ conflict detectors
MapGet(map, key) == IF key \in DOMAIN map THEN map[key] ELSE Null

\* ratings.get(fileId)?.rating ?? null
DbRatingOf(rs, fileId) == IF fileId \in DOMAIN rs THEN rs[fileId].rating ELSE Null
\* ratings.get(fileId)?.overRuleFileRating ?? null, as its truthiness
DbOverRuleOf(rs, fileId) ==
  IF fileId \in DOMAIN rs THEN rs[fileId].overRuleFileRating = 1 ELSE FALSE

hasRatingConflictIn(rs, ex, fileName) ==
  LET fileId == getFileId(fileName)
      exifRating == MapGet(ex, fileId)
      dbRating == DbRatingOf(rs, fileId)
      dbOverRule == DbOverRuleOf(rs, fileId)
  IN exifRating /= Null /\ exifRating /= 0 /\ dbRating /= Null
     /\ exifRating /= dbRating /\ ~dbOverRule

hasRawRatingConflictIn(rs, rawEx, fileName) ==
  LET fileId == getFileId(fileName)
      rawRating == MapGet(rawEx, fileId)
      dbRating == DbRatingOf(rs, fileId)
      dbOverRule == DbOverRuleOf(rs, fileId)
  IN rawRating /= Null /\ rawRating /= 0 /\ dbRating /= Null
     /\ rawRating /= dbRating /\ ~dbOverRule

hasJpgRawMismatchIn(rs, ex, rawEx, fileName) ==
  LET fileId == getFileId(fileName)
      exifRating == MapGet(ex, fileId)
      rawRating == MapGet(rawEx, fileId)
      dbRating == DbRatingOf(rs, fileId)
  IN exifRating /= Null /\ exifRating /= 0 /\ rawRating /= Null /\ rawRating /= 0
     /\ (dbRating = Null \/ dbRating = 0) /\ exifRating /= rawRating

hasRatingConflict(fileName) == hasRatingConflictIn(ratings, exifData, fileName)
hasRawRatingConflict(fileName) == hasRawRatingConflictIn(ratings, rawExifData, fileName)
hasJpgRawMismatch(fileName) == hasJpgRawMismatchIn(ratings, exifData, rawExifData, fileName)

\* a gate that looks at the two store conflicts only
hasAnyConflictsNoMismatch ==
  \E image \in imageFiles :
    hasRatingConflict(image) \/ hasRawRatingConflict(image)

hasAnyConflicts ==
  \E image \in imageFiles :
    hasRatingConflict(image) \/ hasRawRatingConflict(image) \/ hasJpgRawMismatch(image)

\* -------------------------------------------------------------- aggregator
\* the fileIds collected in an array, once per Map that rates them
allFileIdsWithRepeats(dbRatingsMap, jpgRatingsMap, rawRatingsMap) ==
  LET d == {id \in DOMAIN dbRatingsMap :
              dbRatingsMap[id].rating /= Null /\ dbRatingsMap[id].rating /= 0}
      j == {id \in DOMAIN jpgRatingsMap :
              jpgRatingsMap[id] /= Null /\ jpgRatingsMap[id] /= 0}
      r == {id \in DOMAIN rawRatingsMap :
              rawRatingsMap[id] /= Null /\ rawRatingsMap[id] /= 0}
  IN SeqOf(d) \o SeqOf(j) \o SeqOf(r)

\* src/utils/ratings-aggregator.ts aggregateRatings, lines 70-86: the Set of
\* fileIds with a rating other than null and 0, in insertion order
allFileIds(dbRatingsMap, jpgRatingsMap, rawRatingsMap) ==
  LET d == {id \in DOMAIN dbRatingsMap :
              dbRatingsMap[id].rating /= Null /\ dbRatingsMap[id].rating /= 0}
      j == {id \in DOMAIN jpgRatingsMap :
              jpgRatingsMap[id] /= Null /\ jpgRatingsMap[id] /= 0}
      r == {id \in DOMAIN rawRatingsMap :
              rawRatingsMap[id] /= Null /\ rawRatingsMap[id] /= 0}
  IN SeqOf(d) \o SeqOf(j \ d) \o SeqOf(r \ (d \cup j))

\* dbData?.overRuleFileRating ?? false, as its truthiness
OverRuleFlagOf(dbRatingsMap, fileId) ==
  /\ fileId \in DOMAIN dbRatingsMap
  /\ "overRuleFileRating" \in DOMAIN dbRatingsMap[fileId]
  /\ dbRatingsMap[fileId].overRuleFileRating = 1

\* BucketOf with the store branch of the earlier aggregator, which wanted the
\* JPG rating and the RAW rating both absent
BucketOfBothAbsent(dbRatingsMap, jpgRatingsMap, rawRatingsMap, fileId) ==
  LET dbRating == IF fileId \in DOMAIN dbRatingsMap
                  THEN dbRatingsMap[fileId].rating ELSE Null
      overRuleFlag == OverRuleFlagOf(dbRatingsMap, fileId)
      jpgRating == MapGet(jpgRatingsMap, fileId)
      rawRating == MapGet(rawRatingsMap, fileId)
  IN IF overRuleFlag /\ dbRating /= Null /\ dbRating /= 0
     THEN [bucket |-> "db", rating |-> dbRating]
     ELSE IF dbRating /= Null /\ dbRating /= 0
             /\ (jpgRating = Null /\ rawRating = Null)
     THEN [bucket |-> "db", rating |-> dbRating]
     ELSE IF jpgRating /= Null /\ jpgRating /= 0 /\ rawRating = Null /\ dbRating = Null
     THEN [bucket |-> "jpg", rating |-> jpgRating]
     ELSE IF rawRating /= Null /\ rawRating /= 0 /\ jpgRating = Null /\ dbRating = Null
     THEN [bucket |-> "raw", rating |-> rawRating]
     ELSE [bucket |-> "none", rating |-> Null]

\* BucketOf with the RAW branch pushing to the JPG list
BucketOfRawIntoJpg(dbRatingsMap, jpgRatingsMap, rawRatingsMap, fileId) ==
  LET dbRating == IF fileId \in DOMAIN dbRatingsMap
                  THEN dbRatingsMap[fileId].rating ELSE Null
      overRuleFlag == OverRuleFlagOf(dbRatingsMap, fileId)
      jpgRating == MapGet(jpgRatingsMap, fileId)
      rawRating == MapGet(rawRatingsMap, fileId)
  IN IF overRuleFlag /\ dbRating /= Null /\ dbRating /= 0
     THEN [bucket |-> "db", rating |-> dbRating]
     ELSE IF dbRating /= Null /\ dbRating /= 0
             /\ (jpgRating = Null \/ rawRating = Null)
     THEN [bucket |-> "db", rating |-> dbRating]
     ELSE IF jpgRating /= Null /\ jpgRating /= 0 /\ rawRating = Null /\ dbRating = Null
     THEN [bucket |-> "jpg", rating |-> jpgRating]
     ELSE IF rawRating /= Null /\ rawRating /= 0 /\ jpgRating = Null /\ dbRating = Null
     THEN [bucket |-> "jpg", rating |-> rawRating]
     ELSE [bucket |-> "none", rating |-> Null]

\* BucketOf with a store branch that does not test the stored rating for 0
BucketOfZeroStore(dbRatingsMap, jpgRatingsMap, rawRatingsMap, fileId) ==
  LET dbRating == IF fileId \in DOMAIN dbRatingsMap
                  THEN dbRatingsMap[fileId].rating ELSE Null
      overRuleFlag == OverRuleFlagOf(dbRatingsMap, fileId)
      jpgRating == MapGet(jpgRatingsMap, fileId)
      rawRating == MapGet(rawRatingsMap, fileId)
  IN IF overRuleFlag /\ dbRating /= Null /\ dbRating /= 0
     THEN [bucket |-> "db", rating |-> dbRating]
     ELSE IF dbRating /= Null /\ (jpgRating = Null \/ rawRating = Null)
     THEN [bucket |-> "db", rating |-> dbRating]
     ELSE IF jpgRating /= Null /\ jpgRating /= 0 /\ rawRating = Null /\ dbRating = Null
     THEN [bucket |-> "jpg", rating |-> jpgRating]
     ELSE IF rawRating /= Null /\ rawRating /= 0 /\ jpgRating = Null /\ dbRating = Null
     THEN [bucket |-> "raw", rating |-> rawRating]
     ELSE [bucket |-> "none", rating |-> Null]

\* lines 89-123: the bucket one fileId goes to, "none" when no branch is taken
BucketOf(dbRatingsMap, jpgRatingsMap, rawRatingsMap, fileId) ==
  LET dbRating == IF fileId \in DOMAIN dbRatingsMap
                  THEN dbRatingsMap[fileId].rating ELSE Null
      overRuleFlag == OverRuleFlagOf(dbRatingsMap, fileId)
      jpgRating == MapGet(jpgRatingsMap, fileId)
      rawRating == MapGet(rawRatingsMap, fileId)
  IN IF overRuleFlag /\ dbRating /= Null /\ dbRating /= 0
     THEN [bucket |-> "db", rating |-> dbRating]
     ELSE IF dbRating /= Null /\ dbRating /= 0
             /\ (jpgRating = Null \/ rawRating = Null)
     THEN [bucket |-> "db", rating |-> dbRating]
     ELSE IF jpgRating /= Null /\ jpgRating /= 0 /\ rawRating = Null /\ dbRating = Null
     THEN [bucket |-> "jpg", rating |-> jpgRating]
     ELSE IF rawRating /= Null /\ rawRating /= 0 /\ jpgRating = Null /\ dbRating = Null
     THEN [bucket |-> "raw", rating |-> rawRating]
     ELSE [bucket |-> "none", rating |-> Null]

RECURSIVE BucketItems(_, _, _, _, _, _)
\* the RatingItems pushed to one bucket while looping over ids from i on
BucketItems(ids, i, dbRatingsMap, jpgRatingsMap, rawRatingsMap, bucket) ==
  IF i > Len(ids) THEN << >>
  ELSE LET b == BucketOf(dbRatingsMap, jpgRatingsMap, rawRatingsMap, ids[i])
       IN (IF b.bucket = bucket
           THEN <<[fileName |-> ids[i], rating |-> b.rating]>>
           ELSE << >>)
          \o BucketItems(ids, i + 1, dbRatingsMap, jpgRatingsMap, rawRatingsMap, bucket)

aggregateRatings(dbRatingsMap, jpgRatingsMap, rawRatingsMap, hasConflicts) ==
  IF hasConflicts THEN EmptyRequest
  ELSE LET ids == allFileIds(dbRatingsMap, jpgRatingsMap, rawRatingsMap)
       IN [dbRatings |-> BucketItems(ids, 1, dbRatingsMap, jpgRatingsMap, rawRatingsMap, "db"),
           jpgRatings |-> BucketItems(ids, 1, dbRatingsMap, jpgRatingsMap, rawRatingsMap, "jpg"),
           rawRatings |-> BucketItems(ids, 1, dbRatingsMap, jpgRatingsMap, rawRatingsMap, "raw")]

\* -------------------------------------------------------------- Apply flow
\* src/app/list/page.tsx handleApplyRatings, lines 396-401: the entries of
\* the ratings Map with a rating other than null and 0, as { rating }
ApplyDbRatingsMap(rs) ==
  [fileId \in {id \in DOMAIN rs : rs[id].rating /= Null /\ rs[id].rating /= 0} |->
     [rating |-> rs[fileId].rating]]

\* lines 404-417: the entries other than null and 0
ApplyFileRatingsMap(ex) ==
  [fileId \in {id \in DOMAIN ex : ex[id] /= Null /\ ex[id] /= 0} |-> ex[fileId]]

\* The Apply button is disabled while hasAnyConflicts() (line 654).
handleApplyRatings ==
  /\ route = "/list"
  /\ pc = "idle"
  /\ selectedConflict = NoConflict
  /\ ~hasAnyConflicts
  /\ request' = aggregateRatings(ApplyDbRatingsMap(ratings),
                                 ApplyFileRatingsMap(exifData),
                                 ApplyFileRatingsMap(rawExifData),
                                 hasAnyConflicts)
  /\ pc' = "posted"
  /\ UNCHANGED <<diskVars, pageVars, updateJobs, dbUpdatesCount, results, response,
                 badFiles, log, flagged, viewerVars>>
  /\ resolution' = "none"
  /\ UNCHANGED inFlight

\* ---------------------------------------------------------- metadata writer
JPG_EXTENSIONS == {"jpg", "jpeg"}
RAW_EXTENSIONS == {"raw", "dng", "nef", "cr2", "crw", "arw", "raf", "rw2", "orf", "pef"}

Last(seq) == seq[Len(seq)]

\* src/controllers/exiftool.ts updateRatings, lines 398-399: the two regular
\* expressions on the file path
IsJpgPath(filePath) == Len(filePath.name) > 1 /\ Last(filePath.name) \in JPG_EXTENSIONS
IsRawPath(filePath) == Len(filePath.name) > 1 /\ Last(filePath.name) \in RAW_EXTENSIONS

WriteEvent(filePath, rating, ok) ==
  [op |-> "write", folder |-> filePath.folder, name |-> filePath.name,
   rating |-> rating, ok |-> ok]
UpsertEvent(fileId, rating, ok) ==
  [op |-> "upsert", folder |-> "db", name |-> fileId, rating |-> rating, ok |-> ok]
ResetEvent ==
  [op |-> "reset", folder |-> "db", name |-> << >>, rating |-> 0, ok |-> TRUE]

\* the files one exiftool run (or one sidecar write) changes: a file in bad
\* is corrupt or locked and keeps its tag, the other files get the rating
WriteTag(files, filePath, rating, bad) ==
  IF filePath \in bad \/ filePath.name \notin DOMAIN files THEN files
  ELSE [files EXCEPT ![filePath.name] = rating]

RECURSIVE WriteTags(_, _, _, _, _)
WriteTags(files, filePaths, i, rating, bad) ==
  IF i > Len(filePaths) THEN files
  ELSE WriteTags(WriteTag(files, filePaths[i], rating, bad), filePaths, i + 1, rating, bad)

RECURSIVE RatingKeys(_, _, _)
\* batchUpdateJpgRatings, lines 293-300: the keys of jobsByRating in
\* insertion order
RatingKeys(jobs, i, seen) ==
  IF i > Len(jobs) THEN << >>
  ELSE IF jobs[i].rating \in seen THEN RatingKeys(jobs, i + 1, seen)
  ELSE <<jobs[i].rating>> \o RatingKeys(jobs, i + 1, seen \cup {jobs[i].rating})

RECURSIVE PathsOf(_, _, _)
PathsOf(jobs, i, rating) ==
  IF i > Len(jobs) THEN << >>
  ELSE (IF jobs[i].rating = rating THEN <<jobs[i].filePath>> ELSE << >>)
       \o PathsOf(jobs, i + 1, rating)

\* lines 303-321: one exiftool command per rating value; the command exits
\* with an error when any of its files is in bad, and then every file of the
\* command is reported as failed
GroupSucceeds(filePaths, bad) == \A i \in DOMAIN filePaths : filePaths[i] \notin bad

GroupResults(filePaths, rating, bad) ==
  [i \in DOMAIN filePaths |->
     [filePath |-> filePaths[i], rating |-> rating,
      success |-> GroupSucceeds(filePaths, bad)]]

RECURSIVE batchUpdateJpgRatings(_, _, _, _, _)
\* st = [files, results]; keys = the rating values still to be written
batchUpdateJpgRatings(jobs, keys, i, st, bad) ==
  IF i > Len(keys) THEN st
  ELSE LET filePaths == PathsOf(jobs, 1, keys[i])
       IN batchUpdateJpgRatings(jobs, keys, i + 1,
            [files |-> WriteTags(st.files, filePaths, 1, keys[i], bad),
             results |-> st.results \o GroupResults(filePaths, keys[i], bad)],
            bad)

\* lines 337-363 updateRawRating: creates or updates the XMP sidecar of one
\* RAW file, success or failure of that file alone
updateRawRating(job, bad) ==
  [filePath |-> job.filePath, rating |-> job.rating, success |-> job.filePath \notin bad]

RECURSIVE RawLoop(_, _, _, _)
RawLoop(rawJobs, i, st, bad) ==
  IF i > Len(rawJobs) THEN st
  ELSE RawLoop(rawJobs, i + 1,
         [files |-> WriteTag(st.files, rawJobs[i].filePath, rawJobs[i].rating, bad),
          results |-> Append(st.results, updateRawRating(rawJobs[i], bad))],
         bad)

\* lines 394-414 updateRatings
updateRatings(jobs, jf, rf, bad) ==
  LET jpgJobs == SelectSeq(jobs, LAMBDA j : IsJpgPath(j.filePath))
      rawJobs == SelectSeq(jobs, LAMBDA j : IsRawPath(j.filePath))
      jpgSt == batchUpdateJpgRatings(jpgJobs, RatingKeys(jpgJobs, 1, {}), 1,
                                     [files |-> jf, results |-> << >>], bad)
      rawSt == RawLoop(rawJobs, 1, [files |-> rf, results |-> << >>], bad)
  IN [jpgFiles |-> jpgSt.files, rawFiles |-> rawSt.files,
      results |-> jpgSt.results \o rawSt.results]

\* ------------------------------------------------------ batch apply route
\* src/app/api/set-ratings/route.ts findFileVariants: the existing files
\* named baseName + ext
JpgVariants(jf, baseName) ==
  IF JpgName(baseName) \in DOMAIN jf
  THEN <<[folder |-> "main", name |-> JpgName(baseName)]>> ELSE << >>
RawVariants(rf, baseName) ==
  IF RawName(baseName) \in DOMAIN rf
  THEN <<[folder |-> "raw", name |-> RawName(baseName)]>> ELSE << >>

JobsFor(filePaths, rating) ==
  [i \in DOMAIN filePaths |-> [filePath |-> filePaths[i], rating |-> rating]]

\* DbRatingJobs that leaves out the files whose rating already equals the
\* job's rating
DbRatingJobsSkipEqual(jf, rf, item) ==
  LET baseName == getBaseName(item.fileName)
      jpgs == SelectSeq(JpgVariants(jf, baseName), LAMBDA f : jf[f.name] /= item.rating)
      raws == SelectSeq(RawVariants(rf, baseName), LAMBDA f : rf[f.name] /= item.rating)
  IN JobsFor(jpgs \o raws, item.rating)

\* lines 64-76: a dbRatings item queues every JPG and RAW variant
DbRatingJobs(jf, rf, item) ==
  LET baseName == getBaseName(item.fileName)
  IN JobsFor(JpgVariants(jf, baseName) \o RawVariants(rf, baseName), item.rating)

\* JpgRatingJobs that queues every variant, as the dbRatings loop does
JpgRatingJobsAllVariants(jf, rf, item) ==
  LET baseName == getBaseName(item.fileName)
  IN JobsFor(JpgVariants(jf, baseName) \o RawVariants(rf, baseName), item.rating)

\* lines 78-88: a jpgRatings item queues the RAW variants
JpgRatingJobs(jf, rf, item) ==
  JobsFor(RawVariants(rf, getBaseName(item.fileName)), item.rating)

\* lines 99-109: a rawRatings item queues the JPG variants
RawRatingJobs(jf, rf, item) ==
  JobsFor(JpgVariants(jf, getBaseName(item.fileName)), item.rating)

RECURSIVE DbRatingsLoop(_, _, _, _, _)
DbRatingsLoop(items, i, st, jf, rf) ==
  IF i > Len(items) THEN st
  ELSE DbRatingsLoop(items, i + 1,
         [st EXCEPT !.updateJobs = @ \o DbRatingJobs(jf, rf, items[i])], jf, rf)

\* lines 90-96 and 111-117: try { upsertRating(fileName, folderPath, rating,
\* false); dbUpdatesCount++ } catch { log }.  failing = the identities whose
\* upsert throws.
UpsertStep(st, item, failing) ==
  IF item.fileName \in failing
  THEN [st EXCEPT !.log = Append(@, UpsertEvent(item.fileName, item.rating, FALSE))]
  ELSE [st EXCEPT !.db = upsertRating(@, item.fileName, item.rating, "false"),
                  !.dbUpdatesCount = @ + 1,
                  !.log = Append(@, UpsertEvent(item.fileName, item.rating, TRUE))]

RECURSIVE JpgRatingsLoop(_, _, _, _, _, _)
JpgRatingsLoop(items, i, st, jf, rf, failing) ==
  IF i > Len(items) THEN st
  ELSE JpgRatingsLoop(items, i + 1,
         UpsertStep([st EXCEPT !.updateJobs = @ \o JpgRatingJobs(jf, rf, items[i])],
                    items[i], failing),
         jf, rf, failing)

RECURSIVE RawRatingsLoop(_, _, _, _, _, _)
RawRatingsLoop(items, i, st, jf, rf, failing) ==
  IF i > Len(items) THEN st
  ELSE RawRatingsLoop(items, i + 1,
         UpsertStep([st EXCEPT !.updateJobs = @ \o RawRatingJobs(jf, rf, items[i])],
                    items[i], failing),
         jf, rf, failing)

\* the identities the request upserts
UpsertIds(req) ==
  {req.jpgRatings[i].fileName : i \in DOMAIN req.jpgRatings}
    \cup {req.rawRatings[i].fileName : i \in DOMAIN req.rawRatings}

\* POST, lines 60-118: the three loops
PostCollect ==
  /\ pc = "posted"
  /\ \E failing \in SUBSET UpsertIds(request) :
       LET st0 == [db |-> db, dbUpdatesCount |-> 0, updateJobs |-> << >>, log |-> << >>]
           st1 == DbRatingsLoop(request.dbRatings, 1, st0, jpgFiles, rawFiles)
           st2 == JpgRatingsLoop(request.jpgRatings, 1, st1, jpgFiles, rawFiles, failing)
           st3 == RawRatingsLoop(request.rawRatings, 1, st2, jpgFiles, rawFiles, failing)
       IN /\ db' = st3.db
          /\ dbUpdatesCount' = st3.dbUpdatesCount
          /\ updateJobs' = st3.updateJobs
          /\ log' = st3.log
  /\ pc' = "collected"
  /\ UNCHANGED <<jpgFiles, rawFiles, pageVars, request, results, response, badFiles,
                 flagged, viewerVars>>
  /\ resolution' = "none"
  /\ UNCHANGED inFlight

QueuedPaths == {updateJobs[i].filePath : i \in DOMAIN updateJobs}

RECURSIVE WriteEvents(_, _)
WriteEvents(res, i) ==
  IF i > Len(res) THEN << >>
  ELSE <<WriteEvent(res[i].filePath, res[i].rating, res[i].success)>> \o WriteEvents(res, i + 1)

\* the log after the file updates of line 122 have settled
LogAfterUpdates(lg, res) == lg \o WriteEvents(res, 1)

\* POST, lines 120-129: if (updateJobs.length > 0) results = await updateRatings(..)
PostUpdateRatings ==
  /\ pc = "collected"
  /\ \E failed \in SUBSET QueuedPaths :
       LET out == IF Len(updateJobs) > 0
                  THEN updateRatings(updateJobs, jpgFiles, rawFiles, failed)
                  ELSE [jpgFiles |-> jpgFiles, rawFiles |-> rawFiles, results |-> << >>]
       IN /\ jpgFiles' = out.jpgFiles
          /\ rawFiles' = out.rawFiles
          /\ results' = out.results
          /\ log' = LogAfterUpdates(log, out.results)
          /\ badFiles' = failed
  /\ pc' = "written"
  /\ UNCHANGED <<db, pageVars, request, updateJobs, dbUpdatesCount, response,
                 flagged, viewerVars>>
  /\ resolution' = "none"
  /\ UNCHANGED inFlight

\* LogAfterReset of a route that resets the flags before its jobs
LogResetFirst(lg) == <<ResetEvent>> \o lg

\* the log after resetOverRuleFlag of line 132
LogAfterReset(lg) == Append(lg, ResetEvent)

\* SummaryOf that counts every result, failed or not
SummaryOfAllResults(req, dbCount, res) ==
  [status |-> 200,
   success |-> TRUE,
   dbUpdatesCount |-> dbCount,
   fileUpdatesCount |-> Len(res),
   dbRatingsCount |-> Len(req.dbRatings),
   jpgRatingsCount |-> Len(req.jpgRatings),
   rawRatingsCount |-> Len(req.rawRatings)]

\* lines 123 and 134-142: the JSON body of the answer
SummaryOf(req, dbCount, res) ==
  [status |-> 200,
   success |-> TRUE,
   dbUpdatesCount |-> dbCount,
   fileUpdatesCount |-> Len(SelectSeq(res, LAMBDA r : r.success)),
   dbRatingsCount |-> Len(req.dbRatings),
   jpgRatingsCount |-> Len(req.jpgRatings),
   rawRatingsCount |-> Len(req.rawRatings)]

\* POST, lines 131-142: reset the overrule flags, then answer
PostReset ==
  /\ pc = "written"
  /\ db' = resetOverRuleFlag(db)
  /\ flagged' = {id \in DOMAIN db : db[id].overRuleFileRating = 1}
  /\ log' = LogAfterReset(log)
  /\ response' = SummaryOf(request, dbUpdatesCount, results)
  /\ pc' = "done"
  /\ UNCHANGED <<jpgFiles, rawFiles, pageVars, request, updateJobs, dbUpdatesCount,
                 results, badFiles, viewerVars>>
  /\ resolution' = "none"
  /\ UNCHANGED inFlight

\* ------------------------------------------------------------ rating route
\* src/app/api/ratings/route.ts POST, lines 50-60: the identity is
\* path.parse(fileName).name, the rating must be null or an integer of the
\* star range, and upsertRating is called without the overrule argument
IsValidRating(rating) == rating \in Ratings

\* RatingsPOST of a route that stores every rating with the flag set
RatingsPOSTWithFlag(store, fileName, rating) ==
  IF rating /= Null /\ ~IsValidRating(rating)
  THEN [ok |-> FALSE, db |-> store]
  ELSE [ok |-> TRUE,
        db |-> upsertRating(store, getBaseName(fileName), rating, "true")]

RatingsPOST(store, fileName, rating) ==
  IF rating /= Null /\ ~IsValidRating(rating)
  THEN [ok |-> FALSE, db |-> store]
  ELSE [ok |-> TRUE,
        db |-> upsertRating(store, getBaseName(fileName), rating, "undefined")]

\* --------------------------------------------------------------- list page
\* src/app/list/page.tsx loadFolder, lines 55-186
LoadFolder ==
  /\ route = "/list"
  /\ pc \in {"idle", "done"}
  /\ imageFiles' = DOMAIN jpgFiles
  /\ ratings' = LoadRatings(db)
  /\ exifData' = LoadExif(jpgFiles)
  /\ rawExifData' = LoadExif(rawFiles)
  /\ selectedConflict' = NoConflict
  /\ pc' = "idle"
  /\ request' = EmptyRequest
  /\ updateJobs' = << >>
  /\ dbUpdatesCount' = 0
  /\ results' = << >>
  /\ response' = NoResponse
  /\ badFiles' = {}
  /\ log' = << >>
  /\ flagged' = {}
  /\ UNCHANGED <<diskVars, viewerVars>>
  /\ resolution' = "none"
  /\ UNCHANGED inFlight

\* the local record written by setRatings after a successful POST
LocalRecord(rating, flag) == [rating |-> rating, overRuleFileRating |-> flag]

SetLocal(rs, fileId, rec) ==
  [id \in DOMAIN rs \cup {fileId} |-> IF id = fileId THEN rec ELSE rs[id]]

\* lines 226-250 updateRatingInDatabase: POST with overRuleFileRating false,
\* then the local Map entry of getFileId(fileName)
updateRatingInDatabase(fileName, rating) ==
  LET res == RatingsPOST(db, fileName, rating)
  IN /\ db' = res.db
     /\ ratings' = IF res.ok
                   THEN SetLocal(ratings, getFileId(fileName), LocalRecord(rating, 0))
                   ELSE ratings

\* lines 294-320 renderRatingStars: a click on a star sets it, a click on the
\* current rating clears it
RatingClick ==
  /\ route = "/list"
  /\ pc = "idle"
  /\ selectedConflict = NoConflict
  /\ \E fileName \in imageFiles, star \in Ratings :
       LET currentRating == DbRatingOf(ratings, getFileId(fileName))
           newRating == IF currentRating = star THEN Null ELSE star
       IN updateRatingInDatabase(fileName, newRating)
  /\ UNCHANGED <<jpgFiles, rawFiles, imageFiles, exifData, rawExifData,
                 selectedConflict, pc, routeVars, flagged, viewerVars>>
  /\ resolution' = "none"
  /\ UNCHANGED inFlight

Truthy(rating) == rating /= Null /\ rating /= 0

\* an indicator that shows the button whenever both ratings are there
renderConflictIndicatorForAnyPair(fileName) ==
  LET fileId == getFileId(fileName)
      exifRating == MapGet(exifData, fileId)
      dbRating == DbRatingOf(ratings, fileId)
      dbOverRule == DbOverRuleOf(ratings, fileId)
  IN IF ~Truthy(dbRating) /\ ~Truthy(exifRating) THEN "No rating"
     ELSE IF Truthy(dbRating) /\ Truthy(exifRating) /\ ~dbOverRule THEN "Conflict"
     ELSE IF Truthy(dbRating) /\ Truthy(exifRating) /\ exifRating /= dbRating /\ dbOverRule
       THEN "Resolved"
     ELSE IF Truthy(dbRating) /\ Truthy(exifRating) /\ exifRating = dbRating THEN "match"
     ELSE IF Truthy(dbRating) /\ ~Truthy(exifRating) THEN "db only"
     ELSE "file only"

\* lines 448-535 renderConflictIndicator: the label of the JPG column
renderConflictIndicator(fileName) ==
  LET fileId == getFileId(fileName)
      exifRating == MapGet(exifData, fileId)
      dbRating == DbRatingOf(ratings, fileId)
      dbOverRule == DbOverRuleOf(ratings, fileId)
  IN IF ~Truthy(dbRating) /\ ~Truthy(exifRating) THEN "No rating"
     ELSE IF Truthy(dbRating) /\ Truthy(exifRating) /\ exifRating /= dbRating /\ ~dbOverRule
       THEN "Conflict"
     ELSE IF Truthy(dbRating) /\ Truthy(exifRating) /\ exifRating /= dbRating /\ dbOverRule
       THEN "Resolved"
     ELSE IF Truthy(dbRating) /\ Truthy(exifRating) /\ exifRating = dbRating THEN "match"
     ELSE IF Truthy(dbRating) /\ ~Truthy(exifRating) THEN "db only"
     ELSE "file only"

\* lines 465-470 and 555-559: the Conflict button of the JPG column and of
\* the RAW column
SelectConflict ==
  /\ route = "/list"
  /\ pc = "idle"
  /\ selectedConflict = NoConflict
  /\ \E fileName \in imageFiles :
       LET fileId == getFileId(fileName)
           dbRating == DbRatingOf(ratings, fileId)
           dbOverRule == DbOverRuleOf(ratings, fileId)
       IN \E embedded \in {MapGet(exifData, fileId), MapGet(rawExifData, fileId)} :
            /\ Truthy(dbRating) /\ Truthy(embedded)
            /\ embedded /= dbRating /\ ~dbOverRule
            /\ selectedConflict' = [fileName |-> fileName, exifRating |-> embedded,
                                    dbRating |-> dbRating]
  /\ UNCHANGED <<diskVars, imageFiles, ratings, exifData, rawExifData, pc, routeVars,
                 flagged, viewerVars>>
  /\ resolution' = "none"
  /\ UNCHANGED inFlight

\* lines 252-260 handleUseExifRating
handleUseExifRating ==
  /\ route = "/list"
  /\ pc = "idle"
  /\ selectedConflict /= NoConflict
  /\ updateRatingInDatabase(selectedConflict.fileName, selectedConflict.exifRating)
  /\ selectedConflict' = NoConflict
  /\ UNCHANGED <<jpgFiles, rawFiles, imageFiles, exifData, rawExifData, pc, routeVars,
                 flagged, viewerVars>>
  /\ resolution' = "embedded"
  /\ UNCHANGED inFlight

\* lines 262-288 handleUseDatabaseRating: POST with overRuleFileRating true,
\* then the local record with the flag set
handleUseDatabaseRating ==
  /\ route = "/list"
  /\ pc = "idle"
  /\ selectedConflict /= NoConflict
  /\ LET res == RatingsPOST(db, selectedConflict.fileName, selectedConflict.dbRating)
     IN /\ db' = res.db
        /\ ratings' = IF res.ok
                      THEN SetLocal(ratings, getFileId(selectedConflict.fileName),
                                    LocalRecord(selectedConflict.dbRating, 1))
                      ELSE ratings
        /\ selectedConflict' = IF res.ok THEN NoConflict ELSE selectedConflict
  /\ UNCHANGED <<jpgFiles, rawFiles, imageFiles, exifData, rawExifData, pc, routeVars,
                 flagged, viewerVars>>
  /\ resolution' = "stored"
  /\ UNCHANGED inFlight

\* handleIgnoreConflict of a page whose Ignore adopts the embedded rating
handleIgnoreWrites ==
  /\ route = "/list"
  /\ pc = "idle"
  /\ selectedConflict /= NoConflict
  /\ updateRatingInDatabase(selectedConflict.fileName, selectedConflict.exifRating)
  /\ selectedConflict' = NoConflict
  /\ UNCHANGED <<jpgFiles, rawFiles, imageFiles, exifData, rawExifData, pc, routeVars,
                 flagged, viewerVars>>
  /\ resolution' = "ignore"
  /\ UNCHANGED inFlight

\* lines 290-292 handleIgnoreConflict
handleIgnoreConflict ==
  /\ route = "/list"
  /\ pc = "idle"
  /\ selectedConflict /= NoConflict
  /\ selectedConflict' = NoConflict
  /\ UNCHANGED <<diskVars, imageFiles, ratings, exifData, rawExifData, pc, routeVars,
                 flagged, viewerVars>>
  /\ resolution' = "ignore"
  /\ UNCHANGED inFlight

\* ---------------------------------------------------------- specification
StoreRecords == [rating : StoredValues, overRuleFileRating : {0}]

\* a folder holding the photos ids: any of them may have a record of the
\* rating store, an image file and a RAW file, each with any rating
InitDisk(ids) ==
  /\ \E D \in SUBSET ids : db \in [D -> StoreRecords]
  /\ \E J \in SUBSET {JpgName(id) : id \in ids} : jpgFiles \in [J -> TagValues]
  /\ \E R \in SUBSET {RawName(id) : id \in ids} : rawFiles \in [R -> TagValues]

Init ==
  /\ InitDisk(PlainIds) \/ InitDisk(DottedIds)
  /\ imageFiles = DOMAIN jpgFiles
  /\ ratings = LoadRatings(db)
  /\ exifData = LoadExif(jpgFiles)
  /\ rawExifData = LoadExif(rawFiles)
  /\ selectedConflict = NoConflict
  /\ pc = "idle"
  /\ request = EmptyRequest
  /\ updateJobs = << >>
  /\ dbUpdatesCount = 0
  /\ results = << >>
  /\ response = NoResponse
  /\ badFiles = {}
  /\ log = << >>
  /\ flagged = {}
  /\ activeImage = << >>
  /\ activeExifData = Null
  /\ isExifLoading = FALSE
  /\ ratingConflictData = NoConflict
  /\ route = "/list"
  /\ resolution = "none"
  /\ inFlight = << >>

Next ==
  \/ LoadFolder
  \/ RatingClick
  \/ SelectConflict
  \/ handleUseExifRating
  \/ handleUseDatabaseRating
  \/ handleIgnoreConflict
  \/ handleApplyRatings
  \/ PostCollect
  \/ PostUpdateRatings
  \/ PostReset

Spec == Init /\ [][Next]_vars

\* ------------------------------------------------------------ viewer page
\* src/app/page.tsx.  The viewer keeps its own imageFiles and ratings state
\* under the same names as the list page; the browser shows one page at a
\* time, so the two pages share the variables and route tells whose they are.

\* loadFolder, lines 206-226: the rows of the store, then an entry for every
\* file of the batch EXIF data with a Rating and no row
ViewerRatings(store, batchExifData) ==
  [fileId \in DOMAIN store \cup DOMAIN batchExifData |->
     IF fileId \in DOMAIN store THEN store[fileId]
     ELSE LocalRecord(batchExifData[fileId], 0)]

\* activeIndex is 0 after mount: the first image of the listing
FirstImage(files) ==
  LET names == SeqOf({id \in Range(IdOrder) : JpgName(id) \in files})
  IN IF names = << >> THEN << >> ELSE JpgName(names[1])

\* lines 123-242: mount of the viewer and loadFolder; the batch EXIF data of
\* localStorage is there (written when the folder was selected) or not
OpenViewer ==
  /\ pc = "idle"
  /\ route' = "/"
  /\ \E batchExifData \in {<< >>, LoadExif(jpgFiles)} :
       IF DOMAIN jpgFiles = {}
       THEN /\ imageFiles' = {}
            /\ ratings' = << >>
       ELSE /\ imageFiles' = DOMAIN jpgFiles
            /\ ratings' = ViewerRatings(db, batchExifData)
  /\ activeImage' = FirstImage(DOMAIN jpgFiles)
  /\ activeExifData' = Null
  /\ isExifLoading' = (DOMAIN jpgFiles /= {})
  /\ ratingConflictData' = NoConflict
  /\ exifData' = << >>
  /\ rawExifData' = << >>
  /\ selectedConflict' = NoConflict
  /\ UNCHANGED <<diskVars, pc, routeVars, flagged>>
  /\ resolution' = "none"
  /\ UNCHANGED inFlight

\* src/app/list/page.tsx, lines 44-53: mount of the list page and loadFolder
OpenList ==
  /\ route = "/"
  /\ route' = "/list"
  /\ imageFiles' = DOMAIN jpgFiles
  /\ ratings' = LoadRatings(db)
  /\ exifData' = LoadExif(jpgFiles)
  /\ rawExifData' = LoadExif(rawFiles)
  /\ selectedConflict' = NoConflict
  /\ activeImage' = << >>
  /\ activeExifData' = Null
  /\ isExifLoading' = FALSE
  /\ ratingConflictData' = NoConflict
  /\ UNCHANGED <<diskVars, pc, routeVars, flagged>>
  /\ resolution' = "none"
  /\ UNCHANGED inFlight

\* ViewerUpdateRating of a viewer that sets the flag on every write
ViewerUpdateRatingSetsFlag(fileName, rating, overRuleFileRating) ==
  LET res == RatingsPOST(db, fileName, rating)
  IN /\ db' = res.db
     /\ ratings' = IF res.ok
                   THEN SetLocal(ratings, getFileId(fileName), LocalRecord(rating, 1))
                   ELSE ratings
     /\ activeExifData' = IF res.ok THEN Null ELSE activeExifData
     /\ isExifLoading' = IF res.ok THEN TRUE ELSE isExifLoading

\* lines 256-281 updateRatingInDatabase of the viewer: POST, then the local
\* record with the flag that was passed; the new Map re-runs the EXIF effect
\* of the active image (lines 655-737), which starts with setExifData(null)
ViewerUpdateRating(fileName, rating, overRuleFileRating) ==
  LET res == RatingsPOST(db, fileName, rating)
  IN /\ db' = res.db
     /\ ratings' = IF res.ok
                   THEN SetLocal(ratings, getFileId(fileName),
                                 LocalRecord(rating, overRuleFileRating))
                   ELSE ratings
     /\ activeExifData' = IF res.ok THEN Null ELSE activeExifData
     /\ isExifLoading' = IF res.ok THEN TRUE ELSE isExifLoading

\* lines 314, 704: the EXIF rating counts when it is an integer of 1..5
HasExifRating(exifRating) == exifRating \in Ratings

\* setActiveIndex (lines 418, 425, 560, 976): another image becomes active
setActiveIndex ==
  /\ route = "/"
  /\ ratingConflictData = NoConflict
  /\ \E fileName \in imageFiles \ {activeImage} :
       activeImage' = fileName
  /\ activeExifData' = Null
  /\ isExifLoading' = TRUE
  /\ UNCHANGED <<diskVars, pageVars, pc, routeVars, flagged, ratingConflictData, route>>
  /\ resolution' = "none"
  /\ UNCHANGED inFlight

\* a prompt raised only when the embedded rating is the higher one
FetchOpensModalWhenHigher(exifRating, dbRating, dbOverRule) ==
  exifRating > dbRating /\ ~dbOverRule

\* lines 710: exifRating !== dbRating?.rating && !dbRating?.overRuleFileRating
FetchOpensModal(exifRating, dbRating, dbOverRule) ==
  exifRating /= dbRating /\ ~dbOverRule

\* lines 655-737: the EXIF effect of the active image has its answer
fetchExifData ==
  /\ route = "/"
  /\ isExifLoading
  /\ activeImage /= << >>
  /\ LET exifRating == MapGet(jpgFiles, activeImage)
         fileId == getFileId(activeImage)
         dbRating == DbRatingOf(ratings, fileId)
         dbOverRule == DbOverRuleOf(ratings, fileId)
     IN IF HasExifRating(exifRating) /\ dbRating = Null /\ ~dbOverRule
        THEN /\ ViewerUpdateRating(activeImage, exifRating, 0)
             /\ UNCHANGED ratingConflictData
        ELSE /\ activeExifData' = exifRating
             /\ isExifLoading' = FALSE
             /\ ratingConflictData' =
                  IF HasExifRating(exifRating)
                     /\ FetchOpensModal(exifRating, dbRating, dbOverRule)
                  THEN [fileName |-> activeImage, exifRating |-> exifRating,
                        dbRating |-> dbRating]
                  ELSE ratingConflictData
             /\ UNCHANGED <<db, ratings>>
  /\ UNCHANGED <<jpgFiles, rawFiles, imageFiles, exifData, rawExifData,
                 selectedConflict, pc, routeVars, flagged, activeImage, route>>
  /\ resolution' = "none"
  /\ UNCHANGED inFlight

\* lines 307-340 handleRatingClick: a star, an emoji or a key
handleRatingClick ==
  /\ route = "/"
  /\ activeImage /= << >>
  /\ ratingConflictData = NoConflict
  /\ \E rating \in {Null} \cup Ratings :
       LET exifRating == activeExifData
           fileId == getFileId(activeImage)
           currentDbRating == DbRatingOf(ratings, fileId)
           hasConflict == currentDbRating /= Null /\ exifRating /= currentDbRating
       IN IF HasExifRating(exifRating) /\ hasConflict
          THEN /\ ratingConflictData' = [fileName |-> activeImage,
                                         exifRating |-> exifRating,
                                         dbRating |-> currentDbRating]
               /\ UNCHANGED <<db, ratings, activeExifData, isExifLoading>>
          ELSE /\ ViewerUpdateRating(activeImage, rating, 0)
               /\ UNCHANGED ratingConflictData
  /\ UNCHANGED <<jpgFiles, rawFiles, imageFiles, exifData, rawExifData,
                 selectedConflict, pc, routeVars, flagged, activeImage, route>>
  /\ resolution' = "none"
  /\ UNCHANGED inFlight

\* lines 1156-1162 onUseExifRating
onUseExifRating ==
  /\ route = "/"
  /\ ratingConflictData /= NoConflict
  /\ ViewerUpdateRating(ratingConflictData.fileName, ratingConflictData.exifRating, 0)
  /\ ratingConflictData' = NoConflict
  /\ UNCHANGED <<jpgFiles, rawFiles, imageFiles, exifData, rawExifData,
                 selectedConflict, pc, routeVars, flagged, activeImage, route>>
  /\ resolution' = "embedded"
  /\ UNCHANGED inFlight

\* lines 1163-1169 onUseDatabaseRating
onUseDatabaseRating ==
  /\ route = "/"
  /\ ratingConflictData /= NoConflict
  /\ ViewerUpdateRating(ratingConflictData.fileName, ratingConflictData.dbRating, 1)
  /\ ratingConflictData' = NoConflict
  /\ UNCHANGED <<jpgFiles, rawFiles, imageFiles, exifData, rawExifData,
                 selectedConflict, pc, routeVars, flagged, activeImage, route>>
  /\ resolution' = "stored"
  /\ UNCHANGED inFlight

\* lines 1170-1173 onIgnore
onIgnore ==
  /\ route = "/"
  /\ ratingConflictData /= NoConflict
  /\ ratingConflictData' = NoConflict
  /\ UNCHANGED <<diskVars, pageVars, pc, routeVars, flagged, activeImage,
                 activeExifData, isExifLoading, route>>
  /\ resolution' = "ignore"
  /\ UNCHANGED inFlight

\* the two pages over one folder, without the batch apply
InitPages ==
  /\ InitDisk(PlainIds)
  /\ imageFiles = DOMAIN jpgFiles
  /\ ratings = LoadRatings(db)
  /\ exifData = LoadExif(jpgFiles)
  /\ rawExifData = LoadExif(rawFiles)
  /\ selectedConflict = NoConflict
  /\ pc = "idle"
  /\ request = EmptyRequest
  /\ updateJobs = << >>
  /\ dbUpdatesCount = 0
  /\ results = << >>
  /\ response = NoResponse
  /\ badFiles = {}
  /\ log = << >>
  /\ flagged = {}
  /\ activeImage = << >>
  /\ activeExifData = Null
  /\ isExifLoading = FALSE
  /\ ratingConflictData = NoConflict
  /\ route = "/list"
  /\ resolution = "none"
  /\ inFlight = << >>

NextPages ==
  \/ LoadFolder
  \/ RatingClick
  \/ SelectConflict
  \/ handleUseExifRating
  \/ handleUseDatabaseRating
  \/ handleIgnoreConflict
  \/ OpenViewer
  \/ OpenList
  \/ setActiveIndex
  \/ fetchExifData
  \/ handleRatingClick
  \/ onUseExifRating
  \/ onUseDatabaseRating
  \/ onIgnore

SpecPages == InitPages /\ [][NextPages]_vars

\* the two pages and the batch apply of the list page
NextAll ==
  \/ NextPages
  \/ handleApplyRatings
  \/ PostCollect
  \/ PostUpdateRatings
  \/ PostReset

SpecAll == InitPages /\ [][NextAll]_vars

\* ------------------------------------------------- the two routes alone
\* Any client may call the two routes: the rating of a request body is any
\* JSON number.  The requests name the photos of PlainIds; the store file
\* of the folder is read as it is found, whatever flags its rows carry.
RequestRatings == 0..(MaxRating + 1)

RequestItems == [fileName : PlainIds, rating : RequestRatings]

\* bodies of POST /api/set-ratings with at most one item
SetRatingsBodies ==
  {EmptyRequest}
    \cup {[EmptyRequest EXCEPT !.dbRatings = <<item>>] : item \in RequestItems}
    \cup {[EmptyRequest EXCEPT !.jpgRatings = <<item>>] : item \in RequestItems}
    \cup {[EmptyRequest EXCEPT !.rawRatings = <<item>>] : item \in RequestItems}

\* src/app/api/ratings/route.ts POST, called by any client
RatingsRequest ==
  /\ pc \in {"idle", "done"}
  /\ \E id \in PlainIds, rating \in {Null} \cup RequestRatings :
       db' = RatingsPOST(db, JpgName(id), rating).db
  /\ UNCHANGED <<jpgFiles, rawFiles, pageVars, pc, routeVars, flagged, viewerVars>>
  /\ resolution' = "none"
  /\ UNCHANGED inFlight

\* src/app/api/set-ratings/route.ts POST, lines 53-62: the body is taken as
\* it comes
SetRatingsRequest ==
  /\ pc \in {"idle", "done"}
  /\ request' \in SetRatingsBodies
  /\ pc' = "posted"
  /\ updateJobs' = << >>
  /\ dbUpdatesCount' = 0
  /\ results' = << >>
  /\ response' = NoResponse
  /\ badFiles' = {}
  /\ log' = << >>
  /\ flagged' = {}
  /\ UNCHANGED <<diskVars, pageVars, viewerVars>>
  /\ resolution' = "none"
  /\ UNCHANGED inFlight

FoundRecords == [rating : StoredValues, overRuleFileRating : {0, 1}]

InitRoutes ==
  /\ \E D \in SUBSET PlainIds : db \in [D -> FoundRecords]
  /\ \E J \in SUBSET {JpgName(idA)} : jpgFiles \in [J -> {Null}]
  /\ \E R \in SUBSET {RawName(idA)} : rawFiles \in [R -> {Null}]
  /\ imageFiles = {}
  /\ ratings = << >>
  /\ exifData = << >>
  /\ rawExifData = << >>
  /\ selectedConflict = NoConflict
  /\ pc = "idle"
  /\ request = EmptyRequest
  /\ updateJobs = << >>
  /\ dbUpdatesCount = 0
  /\ results = << >>
  /\ response = NoResponse
  /\ badFiles = {}
  /\ log = << >>
  /\ flagged = {}
  /\ activeImage = << >>
  /\ activeExifData = Null
  /\ isExifLoading = FALSE
  /\ ratingConflictData = NoConflict
  /\ route = "/list"
  /\ resolution = "none"
  /\ inFlight = << >>

NextRoutes ==
  \/ RatingsRequest
  \/ SetRatingsRequest
  \/ PostCollect
  \/ PostUpdateRatings
  \/ PostReset

SpecRoutes == InitRoutes /\ [][NextRoutes]_vars

\* ------------------------------------------------- vocabulary of the claims
\* The snapshot an Apply works on is the page's three Maps.
SnapshotIds == DOMAIN ratings \cup DOMAIN exifData \cup DOMAIN rawExifData

\* a rating is present when it is a star rating; null and 0 are absent
Present(rating) == rating /= Null /\ rating /= 0

StoredOf(id) == DbRatingOf(ratings, id)
OverruleOf(id) == DbOverRuleOf(ratings, id)
JpgOf(id) == MapGet(exifData, id)
RawOf(id) == MapGet(rawExifData, id)

IsJpgConflict(id) ==
  Present(StoredOf(id)) /\ Present(JpgOf(id)) /\ StoredOf(id) /= JpgOf(id) /\ ~OverruleOf(id)
IsRawConflict(id) ==
  Present(StoredOf(id)) /\ Present(RawOf(id)) /\ StoredOf(id) /= RawOf(id) /\ ~OverruleOf(id)
IsJpgRawMismatch(id) ==
  ~Present(StoredOf(id)) /\ Present(JpgOf(id)) /\ Present(RawOf(id)) /\ JpgOf(id) /= RawOf(id)
Unresolved(id) == IsJpgConflict(id) \/ IsRawConflict(id) \/ IsJpgRawMismatch(id)

ConflictFree == \A id \in SnapshotIds : ~Unresolved(id)

\* the number of items of a job list for one identity
JobCount(items, id) == Cardinality({i \in DOMAIN items : items[i].fileName = id})
HasJob(items, id, rating) ==
  \E i \in DOMAIN items : items[i].fileName = id /\ items[i].rating = rating

Aggregated == pc = "posted"

\* C1: whenever a photo identity of the snapshot (store, JPG or RAW Map)
\* classifies as jpg-conflict, raw-conflict or jpg-raw-mismatch, the Apply
\* flow produces three empty job lists.
C1_GateCoversEveryIdentity ==
  (Aggregated /\ \E id \in SnapshotIds : Unresolved(id)) => request = EmptyRequest

\* C2: when Apply runs on a conflict-free collection, every photo whose
\* stored record has the overrule flag set and a star rating gets exactly one
\* store-authoritative job (identity, storedRating), whatever its JPG and RAW
\* ratings are.
C2_OverruleIsStoreAuthoritative ==
  (Aggregated /\ ConflictFree) =>
    \A id \in DOMAIN ratings :
      (OverruleOf(id) /\ StoredOf(id) \in Ratings) =>
        /\ JobCount(request.dbRatings, id) = 1
        /\ HasJob(request.dbRatings, id, StoredOf(id))

C4_FileAuthoritativeWhenOnlySource ==
  Aggregated =>
    \A id \in SnapshotIds :
      /\ (JpgOf(id) \in Ratings /\ ~Present(StoredOf(id)) /\ ~Present(RawOf(id))) =>
           /\ JobCount(request.jpgRatings, id) = 1
           /\ HasJob(request.jpgRatings, id, JpgOf(id))
           /\ JobCount(request.dbRatings, id) = 0
           /\ JobCount(request.rawRatings, id) = 0
      /\ (RawOf(id) \in Ratings /\ ~Present(StoredOf(id)) /\ ~Present(JpgOf(id))) =>
           /\ JobCount(request.rawRatings, id) = 1
           /\ HasJob(request.rawRatings, id, RawOf(id))
           /\ JobCount(request.dbRatings, id) = 0
           /\ JobCount(request.jpgRatings, id) = 0

\* C4 witness: one Apply with a JPG-only photo and a RAW-only photo
C4_Witness ==
  /\ Aggregated
  /\ \E id \in SnapshotIds :
       /\ JpgOf(id) \in Ratings /\ ~Present(StoredOf(id)) /\ ~Present(RawOf(id))
       /\ HasJob(request.jpgRatings, id, JpgOf(id))
  /\ \E id \in SnapshotIds :
       /\ RawOf(id) \in Ratings /\ ~Present(StoredOf(id)) /\ ~Present(JpgOf(id))
       /\ HasJob(request.rawRatings, id, RawOf(id))

\* ------------------------------------------------- the batch apply route
Settled == pc \in {"collected", "written", "done"}

UpsertOk(id, rating) == UpsertEvent(id, rating, TRUE) \in Range(log)
UpsertTried(id) == \E i \in DOMAIN log : log[i].op = "upsert" /\ log[i].name = id
Queued(filePath, rating) == [filePath |-> filePath, rating |-> rating] \in Range(updateJobs)

MainPath(name) == [folder |-> "main", name |-> name]
RawPath(name) == [folder |-> "raw", name |-> name]

\* the rating tag of a file on disk
TagOf(filePath) ==
  IF filePath.folder = "main" THEN jpgFiles[filePath.name] ELSE rawFiles[filePath.name]

\* C5 as stated: executing a JPG-authoritative job (identity, r) writes r into
\* the store record of that identity and writes to no RAW file or RAW sidecar
\* of that identity.
C5_JpgJobLeavesRawAlone ==
  Settled =>
    \A i \in DOMAIN request.jpgRatings :
      LET item == request.jpgRatings[i]
      IN /\ UpsertOk(item.fileName, item.rating) =>
              (item.fileName \in DOMAIN db /\ db[item.fileName].rating = item.rating)
         /\ \A j \in DOMAIN updateJobs :
              ~(/\ updateJobs[j].filePath.folder = "raw"
                /\ getFileId(updateJobs[j].filePath.name) = item.fileName)

\* C5 amended: executing a JPG-authoritative job (identity, r) upserts the
\* store record of that identity to {rating r, overrule false} unless the
\* upsert throws, and queues a write of r for the existing RAW file named
\* after the job's base name; the JPG writes of the batch all belong to
\* store-authoritative and RAW-authoritative jobs.
C5_JpgJobWritesStoreAndRaw ==
  Settled =>
    /\ \A i \in DOMAIN request.jpgRatings :
         LET item == request.jpgRatings[i]
             rawName == RawName(getBaseName(item.fileName))
         IN /\ UpsertTried(item.fileName)
            /\ UpsertOk(item.fileName, item.rating) =>
                 /\ item.fileName \in DOMAIN db
                 /\ db[item.fileName] = [rating |-> item.rating, overRuleFileRating |-> 0]
            /\ rawName \in DOMAIN rawFiles => Queued(RawPath(rawName), item.rating)
    /\ \A j \in DOMAIN updateJobs :
         IsJpgPath(updateJobs[j].filePath) =>
           \E item \in Range(request.dbRatings) \cup Range(request.rawRatings) :
             /\ updateJobs[j].filePath = MainPath(JpgName(getBaseName(item.fileName)))
             /\ updateJobs[j].rating = item.rating

\* C5 witness: a batch whose only job is JPG-authoritative, for a photo with
\* a RAW file, has upserted the store and written the RAW file
C5_Witness ==
  /\ pc = "done"
  /\ request.dbRatings = << >> /\ request.rawRatings = << >>
  /\ \E i \in DOMAIN request.jpgRatings :
       LET item == request.jpgRatings[i]
           rawName == RawName(item.fileName)
       IN /\ UpsertOk(item.fileName, item.rating)
          /\ rawName \in DOMAIN rawFiles
          /\ WriteEvent(RawPath(rawName), item.rating, TRUE) \in Range(log)
          /\ rawFiles[rawName] = item.rating

\* C6 as stated: a store-authoritative job (identity, r) queues no write for
\* a JPG or RAW file of the photo whose rating already equals r.
C6_StoreJobSkipsEqualSources ==
  pc = "collected" =>
    \A i \in DOMAIN request.dbRatings :
      LET item == request.dbRatings[i]
      IN \A j \in DOMAIN updateJobs :
           (/\ getFileId(updateJobs[j].filePath.name) = item.fileName
            /\ updateJobs[j].rating = item.rating)
             => TagOf(updateJobs[j].filePath) /= item.rating

\* C6 amended: executing a store-authoritative job (identity, r) queues a
\* write of r for the existing JPG file and the existing RAW file named
\* after the job's base name, whether or not their rating already equals r,
\* and upserts nothing for that identity.
C6_StoreJobWritesEveryVariant ==
  Settled =>
    \A i \in DOMAIN request.dbRatings :
      LET item == request.dbRatings[i]
          jpgName == JpgName(getBaseName(item.fileName))
          rawName == RawName(getBaseName(item.fileName))
      IN /\ jpgName \in DOMAIN jpgFiles => Queued(MainPath(jpgName), item.rating)
         /\ rawName \in DOMAIN rawFiles => Queued(RawPath(rawName), item.rating)
         /\ ~UpsertTried(item.fileName)

\* C6 witness: a store-authoritative job whose JPG file already carries the
\* job's rating, and the file is queued all the same
C6_Witness ==
  /\ pc = "collected"
  /\ \E i \in DOMAIN request.dbRatings :
       LET item == request.dbRatings[i]
           jpgName == JpgName(item.fileName)
       IN /\ jpgName \in DOMAIN jpgFiles
          /\ jpgFiles[jpgName] = item.rating
          /\ Queued(MainPath(jpgName), item.rating)

\* the stored rating of an identity, null without a record
StoredNow(id) == IF id \in DOMAIN db THEN db[id].rating ELSE Null

AgreeNow(id) ==
  /\ JpgName(id) \in DOMAIN jpgFiles => jpgFiles[JpgName(id)] = StoredNow(id)
  /\ RawName(id) \in DOMAIN rawFiles => rawFiles[RawName(id)] = StoredNow(id)

AllJobsSucceeded == badFiles = {} /\ \A i \in DOMAIN log : log[i].ok

\* C7: after a batch Apply over a conflict-free collection in which every
\* write job succeeds, for every photo that had a rating in the store, the
\* JPG or the RAW, the stored rating, the JPG rating (when a JPG file exists)
\* and the RAW rating (when a RAW file exists) are all equal.
C7_AllSourcesAgreeAfterApply ==
  (pc = "done" /\ ConflictFree /\ AllJobsSucceeded) =>
    \A id \in SnapshotIds :
      (Present(StoredOf(id)) \/ Present(JpgOf(id)) \/ Present(RawOf(id))) => AgreeNow(id)

\* C8: within one batch apply request the overrule flags are reset exactly
\* once, after every store upsert and every file write of the batch has
\* settled; nothing of the batch happens after the reset.
C8_ResetOnceAfterAllJobs ==
  /\ \A i \in DOMAIN log : log[i].op = "reset" => (i = Len(log) /\ pc = "done")
  /\ pc = "done" =>
       /\ Len(log) = Len(request.jpgRatings) + Len(request.rawRatings)
                       + Len(updateJobs) + 1
       /\ log[Len(log)].op = "reset"

\* C8 witness: a finished batch with a store upsert and a failed file write
\* before its reset
C8_Witness ==
  /\ pc = "done"
  /\ \E i, j \in DOMAIN log :
       /\ i < j /\ j < Len(log)
       /\ log[i].op = "upsert"
       /\ log[j].op = "write" /\ ~log[j].ok

\* C9: when the write of one file fails, every other job of the batch is
\* still attempted and the result reported for any other file is the one it
\* would have without the failing file: a file is reported failed only when
\* it is itself corrupt or locked.
C9_FailuresAreIsolated ==
  pc \in {"written", "done"} =>
    /\ Len(results) = Len(updateJobs)
    /\ \A i \in DOMAIN results :
         results[i].success = (results[i].filePath \notin badFiles)

FailedJobs == Cardinality({i \in DOMAIN log : ~log[i].ok})

BatchRunning == pc \in {"posted", "collected", "written"}

\* C11: a batch apply attempted while a photo of the snapshot classifies as
\* a conflict is a no-op: no step of the batch changes a stored record (its
\* rating or its overrule flag) or the rating of a file.
C11_ConflictedApplyIsNoOp ==
  [][(BatchRunning /\ ~ConflictFree) => UNCHANGED <<db, jpgFiles, rawFiles>>]_vars

\* C12: the Rating Store rejects a rating that is neither null nor a star
\* rating, so whatever requests the rating route and the batch apply route
\* have served, every stored record has a star rating or none.
C12_StoredRatingsInRange ==
  \A id \in DOMAIN db : db[id].rating \in StoredValues

\* the conflict the user is looking at, on the page the browser shows
OpenConflict == IF route = "/list" THEN selectedConflict ELSE ratingConflictData

\* C13: resolving a conflict with "Use stored rating", in the list or in the
\* viewer, leaves the persisted record of the photo as {stored rating,
\* overrule true}, and a detection on the persisted records and the
\* unchanged JPG ratings (as after a reload) does not report a jpg-conflict.
C13_UseStoredPersistsOverrule ==
  [][(handleUseDatabaseRating \/ onUseDatabaseRating) =>
       LET fileName == OpenConflict.fileName
           fileId == getFileId(fileName)
       IN /\ fileId \in DOMAIN db'
          /\ db'[fileId] = LocalRecord(OpenConflict.dbRating, 1)
          /\ ~hasRatingConflictIn(LoadRatings(db'), LoadExif(jpgFiles'), fileName)]_vars

\* C14: resolving a conflict with "Use embedded rating", in the list or in
\* the viewer, leaves the stored record of the photo as {embedded rating,
\* overrule false}; no other record is created, removed or changed.
C14_UseEmbeddedWritesOneRecord ==
  [][(handleUseExifRating \/ onUseExifRating) =>
       LET fileId == getFileId(OpenConflict.fileName)
       IN /\ DOMAIN db' = DOMAIN db \cup {fileId}
          /\ db'[fileId] = LocalRecord(OpenConflict.exifRating, 0)
          /\ \A id \in DOMAIN db \ {fileId} : db'[id] = db[id]]_vars

\* "Use embedded rating" was the last step, in the viewer, on the active
\* photo, whose record now holds the rating of the file; the other photo
\* has a record too
C14_Witness ==
  /\ resolution = "embedded"
  /\ route = "/"
  /\ Cardinality(DOMAIN db) = 2
  /\ db[getFileId(activeImage)] = LocalRecord(jpgFiles[activeImage], 0)

\* the viewer's detection for an image, on the records rs of the page and
\* the rating of the file: a valid embedded rating against another stored
\* rating, the flag not set
ViewerConflict(rs, fileName) ==
  LET exifRating == MapGet(jpgFiles, fileName)
      fileId == getFileId(fileName)
  IN /\ HasExifRating(exifRating)
     /\ DbRatingOf(rs, fileId) /= Null
     /\ exifRating /= DbRatingOf(rs, fileId)
     /\ ~DbOverRuleOf(rs, fileId)

\* the list's detection for an image: its Conflict button is shown
ListConflict(rs, fileName) ==
  hasRatingConflictIn(rs, exifData, fileName)
    \/ hasRawRatingConflictIn(rs, rawExifData, fileName)

\* C15: resolving a conflict with "Ignore" writes nothing: the store, the
\* files and the page's records are unchanged, a photo that classified as a
\* conflict still does, so the list still shows its Conflict button, and the
\* viewer opens the prompt again when its EXIF effect next runs for it.
C15_IgnoreWritesNothing ==
  [][/\ (handleIgnoreConflict \/ onIgnore) =>
          /\ UNCHANGED <<db, jpgFiles, rawFiles, ratings>>
          /\ route = "/list" => ListConflict(ratings', OpenConflict.fileName)
          /\ ViewerConflict(ratings, OpenConflict.fileName)
               => ViewerConflict(ratings', OpenConflict.fileName)
     /\ (fetchExifData /\ ViewerConflict(ratings, activeImage)) =>
          ratingConflictData' = [fileName |-> activeImage,
                                 exifRating |-> MapGet(jpgFiles, activeImage),
                                 dbRating |-> DbRatingOf(ratings, getFileId(activeImage))]
    ]_vars

\* "Ignore" was the last step in the viewer: the prompt is closed and the
\* active photo is still a conflict
C15_Witness ==
  /\ resolution = "ignore"
  /\ route = "/"
  /\ ratingConflictData = NoConflict
  /\ ViewerConflict(ratings, activeImage)

\* the record a detection site reads has the overrule flag set
Overruled(fileName) == DbOverRuleOf(ratings, getFileId(fileName))

\* C16: while the record of a photo has the overrule flag set, no detection
\* site treats it as a conflict: the list's JPG and RAW checks are false for
\* it and neither the list's nor the viewer's conflict prompt is open on it.
C16_OverruleSuppressesEverywhere ==
  /\ \A fileName \in imageFiles :
       Overruled(fileName) =>
         /\ ~hasRatingConflictIn(ratings, exifData, fileName)
         /\ ~hasRawRatingConflictIn(ratings, rawExifData, fileName)
  /\ selectedConflict /= NoConflict => ~Overruled(selectedConflict.fileName)
  /\ ratingConflictData /= NoConflict => ~Overruled(ratingConflictData.fileName)

\* C17: a photo resolved with "Use stored rating" (its record carries the
\* overrule flag) is not flagged as a conflict by any step of the user
\* before the next batch apply resets the flags: no reload, rating click or
\* resolution makes the list's checks true for it or opens the prompt on it.
C17_NoReflagBeforeReset ==
  [][\A fileName \in imageFiles :
       (Overruled(fileName) /\ pc = "idle" /\ pc' = "idle") =>
         /\ ~hasRatingConflictIn(ratings', exifData', fileName)
         /\ ~hasRawRatingConflictIn(ratings', rawExifData', fileName)
         /\ selectedConflict'.fileName /= fileName]_vars

FlagSet(rs, id) == id \in DOMAIN rs /\ rs[id].overRuleFileRating = 1

SameRecord(before, after, id) == id \in DOMAIN before /\ before[id] = after[id]

UseStoredOn(id) ==
  /\ handleUseDatabaseRating \/ onUseDatabaseRating
  /\ getFileId(OpenConflict.fileName) = id

\* C18: a record, in the store or in the page's copy of it, has the overrule
\* flag set only when the last write to it was a "Use stored rating"
\* resolution: a step that leaves a record with the flag set either did not
\* touch the record or is that resolution of that photo.  Rating clicks, the
\* auto-import of the viewer and the upserts of a batch apply never set it.
C18_OnlyUseStoredSetsFlag ==
  [][\A id \in PlainIds :
       /\ FlagSet(db', id) => SameRecord(db, db', id) \/ UseStoredOn(id)
       /\ FlagSet(ratings', id) => SameRecord(ratings, ratings', id) \/ UseStoredOn(id)
    ]_vars

\* "Use stored rating" was the last step, in the viewer: the page's record
\* of the active photo carries the flag
C18_Witness ==
  /\ resolution = "stored"
  /\ route = "/"
  /\ FlagSet(ratings, getFileId(activeImage))

\* C19: the reset of the overrule flags, as the batch apply route calls it,
\* clears the flag of every record and changes nothing else: the same
\* identities have records afterwards, each with the rating it had.
C19_ResetClearsOnlyFlags ==
  [][PostReset =>
       /\ DOMAIN db' = DOMAIN db
       /\ \A id \in DOMAIN db :
            /\ db'[id].rating = db[id].rating
            /\ db'[id].overRuleFileRating = 0]_vars

\* a batch has ended with a reset that found flags set, on a record with a
\* rating and on a record without one
C19_Witness ==
  /\ pc = "done"
  /\ flagged = PlainIds
  /\ \A id \in flagged : db[id].overRuleFileRating = 0
  /\ db[idA].rating \in Ratings
  /\ db[idB].rating = Null

\* the conflict detector re-run on what is persisted: the store and the
\* ratings of the files as a reload reads them
DetectedOnDisk(fileName) ==
  \/ hasRatingConflictIn(LoadRatings(db), LoadExif(jpgFiles), fileName)
  \/ hasRawRatingConflictIn(LoadRatings(db), LoadExif(rawFiles), fileName)
  \/ hasJpgRawMismatchIn(LoadRatings(db), LoadExif(jpgFiles), LoadExif(rawFiles), fileName)

\* C20: round trip.  After a batch apply over a conflict-free collection in
\* which no job failed, and the reset of the overrule flags that ends it,
\* the conflict detector re-run on the resulting store, JPG and RAW ratings
\* reports no jpg-conflict, raw-conflict or jpg-raw-mismatch for any photo.
C20_RoundTripHasNoConflict ==
  (pc = "done" /\ ConflictFree /\ AllJobsSucceeded) =>
    \A id \in DOMAIN db \cup DOMAIN LoadExif(jpgFiles) \cup DOMAIN LoadExif(rawFiles) :
      ~DetectedOnDisk(JpgName(id))


\* ------------------------------------------------ the mismatch gate (list)
\* what Apply would post for the loaded snapshot under a given gate value
SnapshotJobs(hasConflicts) ==
  aggregateRatings(ApplyDbRatingsMap(ratings), ApplyFileRatingsMap(exifData),
                   ApplyFileRatingsMap(rawExifData), hasConflicts)

C22_EqualRatingsNeverConflict ==
  \A image \in imageFiles :
    LET id == getFileId(image)
    IN (Present(StoredOf(id)) /\ StoredOf(id) = JpgOf(id)) =>
         /\ ~hasRatingConflict(image)
         /\ renderConflictIndicator(image) = "match"

\* C22 witness: a photo with equal stored and JPG ratings, a different RAW
\* rating and the overrule flag set, shown as a match
C22_Witness ==
  \E image \in imageFiles :
    LET id == getFileId(image)
    IN /\ Present(StoredOf(id)) /\ StoredOf(id) = JpgOf(id)
       /\ Present(RawOf(id)) /\ RawOf(id) /= StoredOf(id)
       /\ OverruleOf(id)
       /\ renderConflictIndicator(image) = "match"
       /\ ~hasRatingConflict(image)


\* ------------------------------------------- the prompt of the viewer
\* the RAW file of the image's photo carries a star rating that differs from
\* the rating of its stored record, as the viewer holds it, and the record's
\* flag is not set
ViewerRawConflict(rs, fileName) ==
  LET fileId == getFileId(fileName)
      rawRating == MapGet(rawFiles, RawName(fileId))
  IN /\ rawRating \in Ratings
     /\ fileId \in DOMAIN db
     /\ Present(DbRatingOf(rs, fileId))
     /\ rawRating /= DbRatingOf(rs, fileId)
     /\ ~DbOverRuleOf(rs, fileId)

Descriptor(fileName, embedded, stored) ==
  [fileName |-> fileName, exifRating |-> embedded, dbRating |-> stored]

\* C23 as stated: when the EXIF effect runs for the photo that became
\* active and the photo classifies as jpg-conflict or as raw-conflict, the
\* prompt is raised with the descriptor {file name, embedded rating, stored
\* rating} (the embedded rating being the RAW one for a raw-conflict alone).
C23_ConflictRaisesPrompt ==
  [][fetchExifData =>
       LET stored == DbRatingOf(ratings, getFileId(activeImage))
       IN /\ ViewerConflict(ratings, activeImage) =>
               ratingConflictData' =
                 Descriptor(activeImage, MapGet(jpgFiles, activeImage), stored)
          /\ (ViewerRawConflict(ratings, activeImage)
                /\ ~ViewerConflict(ratings, activeImage)) =>
               ratingConflictData' =
                 Descriptor(activeImage,
                            MapGet(rawFiles, RawName(getFileId(activeImage))), stored)]_vars

\* C23 amended: when the EXIF effect runs for the photo that became active
\* and the photo classifies as jpg-conflict, the prompt is raised with the
\* descriptor {file name, JPG rating, stored rating} and nothing is written;
\* a raw-conflict alone raises no prompt: the viewer reads no RAW rating.
C23_JpgConflictRaisesPrompt ==
  [][fetchExifData =>
       LET stored == DbRatingOf(ratings, getFileId(activeImage))
       IN /\ ViewerConflict(ratings, activeImage) =>
               /\ ratingConflictData' =
                    Descriptor(activeImage, MapGet(jpgFiles, activeImage), stored)
               /\ UNCHANGED <<db, ratings>>
          /\ (ViewerRawConflict(ratings, activeImage)
                /\ ~ViewerConflict(ratings, activeImage)) =>
               UNCHANGED ratingConflictData]_vars

\* C23 witness: the viewer shows the prompt for the active photo, raised by
\* the EXIF effect, while the photo's RAW rating differs from both ratings
\* of the descriptor or is the stored one
C23_Witness ==
  /\ route = "/" /\ resolution = "none" /\ ~isExifLoading
  /\ ratingConflictData /= NoConflict
  /\ ratingConflictData =
       Descriptor(activeImage, activeExifData, DbRatingOf(ratings, getFileId(activeImage)))
  /\ ViewerConflict(ratings, activeImage)
  /\ MapGet(rawFiles, RawName(getFileId(activeImage))) = ratingConflictData.dbRating


\* ----------------------------------------------- auto-import (viewer)
\* C24: when the EXIF effect runs for the photo that became active, the
\* photo's JPG carries a valid rating and the store holds no record of its
\* identity, the store gets the record {rating: embedded rating, overrule
\* false}, whether or not the viewer's ratings were pre-populated from the
\* batch-read embedded ratings.
C24_AutoImportCreatesRecord ==
  [][(/\ fetchExifData
      /\ HasExifRating(MapGet(jpgFiles, activeImage))
      /\ getFileId(activeImage) \notin DOMAIN db) =>
       /\ getFileId(activeImage) \in DOMAIN db'
       /\ db'[getFileId(activeImage)] =
            [rating |-> MapGet(jpgFiles, activeImage), overRuleFileRating |-> 0]]_vars


\* ------------------------------------------------ the aggregator alone
\* aggregateRatings as a function of its four arguments: the three Maps are
\* any Maps over the identities, with null and 0 entries, and the call is
\* made with hasConflicts false or true.
MapValues == {Null, 0} \cup Ratings
DbRatingValues == [rating : MapValues, overRuleFileRating : {0, 1}]

\* lines 52-57, hasConflicts false
AggregateRatings ==
  /\ pc = "idle"
  /\ request' = aggregateRatings(ratings, exifData, rawExifData, FALSE)
  /\ pc' = "aggregated"
  /\ UNCHANGED <<diskVars, pageVars, updateJobs, dbUpdatesCount, results, response,
                 badFiles, log, flagged, viewerVars>>
  /\ resolution' = "none"
  /\ UNCHANGED inFlight

\* lines 64-68, hasConflicts true
AggregateBlocked ==
  /\ pc = "idle"
  /\ request' = aggregateRatings(ratings, exifData, rawExifData, TRUE)
  /\ pc' = "blocked"
  /\ UNCHANGED <<diskVars, pageVars, updateJobs, dbUpdatesCount, results, response,
                 badFiles, log, flagged, viewerVars>>
  /\ resolution' = "none"
  /\ UNCHANGED inFlight

InitAggregate ==
  /\ db = << >>
  /\ jpgFiles = << >>
  /\ rawFiles = << >>
  /\ imageFiles = {JpgName(id) : id \in PlainIds}
  /\ \E D \in SUBSET PlainIds : ratings \in [D -> DbRatingValues]
  /\ \E J \in SUBSET PlainIds : exifData \in [J -> MapValues]
  /\ \E R \in SUBSET PlainIds : rawExifData \in [R -> MapValues]
  /\ selectedConflict = NoConflict
  /\ pc = "idle"
  /\ request = EmptyRequest
  /\ updateJobs = << >>
  /\ dbUpdatesCount = 0
  /\ results = << >>
  /\ response = NoResponse
  /\ badFiles = {}
  /\ log = << >>
  /\ flagged = {}
  /\ activeImage = << >>
  /\ activeExifData = Null
  /\ isExifLoading = FALSE
  /\ ratingConflictData = NoConflict
  /\ route = "/list"
  /\ resolution = "none"
  /\ inFlight = << >>

NextAggregate ==
  \/ AggregateRatings
  \/ AggregateBlocked

SpecAggregate == InitAggregate /\ [][NextAggregate]_vars

\* a Map with its 0 ratings replaced by null
ZeroAsNull(rating) == IF rating = 0 THEN Null ELSE rating
FileMapWithoutZeros(map) == [id \in DOMAIN map |-> ZeroAsNull(map[id])]
DbMapWithoutZeros(map) ==
  [id \in DOMAIN map |-> [map[id] EXCEPT !.rating = ZeroAsNull(@)]]

\* C25: replacing the 0 ratings of the stored, JPG and RAW Maps by null
\* leaves the three job lists of aggregateRatings unchanged and leaves the
\* result of every conflict detector unchanged for every image.
C25_ZeroIsAbsent ==
  LET dbMap == DbMapWithoutZeros(ratings)
      jpgMap == FileMapWithoutZeros(exifData)
      rawMap == FileMapWithoutZeros(rawExifData)
  IN /\ pc = "aggregated" => request = aggregateRatings(dbMap, jpgMap, rawMap, FALSE)
     /\ \A image \in imageFiles :
          /\ hasRatingConflict(image) <=> hasRatingConflictIn(dbMap, jpgMap, image)
          /\ hasRawRatingConflict(image) <=> hasRawRatingConflictIn(dbMap, rawMap, image)
          /\ hasJpgRawMismatch(image) <=> hasJpgRawMismatchIn(dbMap, jpgMap, rawMap, image)

C28_OneJobPerIdentity ==
  pc \in {"aggregated", "blocked"} =>
    \A id \in SnapshotIds \cup {item.fileName : item \in
                Range(request.dbRatings) \cup Range(request.jpgRatings)
                  \cup Range(request.rawRatings)} :
      JobCount(request.dbRatings, id) + JobCount(request.jpgRatings, id)
        + JobCount(request.rawRatings, id) <= 1

\* C28 witness: a call in which one identity is rated in all three Maps and
\* got its single job, and another identity got a job of another list
C28_Witness ==
  /\ pc = "aggregated"
  /\ \E id \in SnapshotIds :
       /\ Present(StoredOf(id)) /\ Present(JpgOf(id)) /\ Present(RawOf(id))
       /\ JobCount(request.dbRatings, id) = 1
  /\ request.jpgRatings /= << >> \/ request.rawRatings /= << >>


\* ------------------------------------------------------ photo identities
FilesOnDisk == DOMAIN jpgFiles \cup DOMAIN rawFiles

\* C26: the identity of a photo is derived alike at every site.  For every
\* file of the folder, the pages' getFileId and the rating route's
\* path.parse(...).name give the same identity, the file's name up to its
\* last '.'; the JPG and the RAW name of that identity map back to it; the
\* batch route, which derives the base name of the photo's job with
\* getBaseName, gets that identity again; a name without '.' is unchanged.
C26_OneIdentityDerivation ==
  \A f \in FilesOnDisk :
    LET id == SubSeq(f, 1, Len(f) - 1)
    IN /\ getFileId(f) = id
       /\ getBaseName(f) = id
       /\ getFileId(JpgName(id)) = id /\ getFileId(RawName(id)) = id
       /\ getBaseName(getFileId(f)) = id
       /\ getFileId(<<f[1]>>) = <<f[1]>> /\ getBaseName(<<f[1]>>) = <<f[1]>>

\* C29: every file queued for a metadata write by a batch belongs to the
\* photo of one of the batch's jobs and gets that job's rating: its name
\* without the final extension is the job's identity, dotted or not.
C29_WritesStayWithinThePhoto ==
  Settled =>
    \A j \in DOMAIN updateJobs :
      \E item \in Range(request.dbRatings) \cup Range(request.jpgRatings)
                   \cup Range(request.rawRatings) :
        /\ getFileId(updateJobs[j].filePath.name) = item.fileName
        /\ updateJobs[j].rating = item.rating


\* ------------------------------------------- rating updates in flight
\* updateRatingInDatabase of the list page is asynchronous: the POST leaves
\* the page, the rating route serves it, and the page sets its Map entry
\* when the response arrives.  Nothing keeps the stars from being clicked
\* while a POST has no response yet.
MaxInFlight == 2

RemoveAt(seq, i) == SubSeq(seq, 1, i - 1) \o SubSeq(seq, i + 1, Len(seq))

\* src/app/list/page.tsx lines 294-320 and 226-237: a click on a star sends
\* the POST
SendRating ==
  /\ route = "/list"
  /\ pc = "idle"
  /\ selectedConflict = NoConflict
  /\ Len(inFlight) < MaxInFlight
  /\ \E fileName \in imageFiles, star \in Ratings :
       LET currentRating == DbRatingOf(ratings, getFileId(fileName))
           newRating == IF currentRating = star THEN Null ELSE star
       IN inFlight' = Append(inFlight, [fileName |-> fileName, rating |-> newRating,
                                        stage |-> "sent", ok |-> FALSE])
  /\ UNCHANGED <<diskVars, pageVars, pc, routeVars, flagged, viewerVars>>
  /\ resolution' = "none"

\* src/app/api/ratings/route.ts POST, lines 34-71: the route serves one of
\* the POSTs that reached it
ServeRating ==
  /\ \E i \in DOMAIN inFlight :
       /\ inFlight[i].stage = "sent"
       /\ LET res == RatingsPOST(db, inFlight[i].fileName, inFlight[i].rating)
          IN /\ db' = res.db
             /\ inFlight' = [inFlight EXCEPT ![i].stage = "served", ![i].ok = res.ok]
  /\ UNCHANGED <<jpgFiles, rawFiles, pageVars, pc, routeVars, flagged, viewerVars>>
  /\ resolution' = "none"

\* src/app/list/page.tsx lines 239-246: a response arrives and the page sets
\* the Map entry to the rating it had sent
ReceiveResponse ==
  /\ \E i \in DOMAIN inFlight :
       /\ inFlight[i].stage = "served"
       /\ ratings' = IF inFlight[i].ok
                     THEN SetLocal(ratings, getFileId(inFlight[i].fileName),
                                   LocalRecord(inFlight[i].rating, 0))
                     ELSE ratings
       /\ inFlight' = RemoveAt(inFlight, i)
  /\ UNCHANGED <<diskVars, imageFiles, exifData, rawExifData, selectedConflict, pc,
                 routeVars, flagged, viewerVars>>
  /\ resolution' = "none"

\* the list page has loaded a folder of two untagged photos
InitInFlight ==
  /\ \E D \in SUBSET PlainIds : db \in [D -> StoreRecords]
  /\ jpgFiles = [f \in {JpgName(id) : id \in PlainIds} |-> Null]
  /\ rawFiles = << >>
  /\ imageFiles = DOMAIN jpgFiles
  /\ ratings = LoadRatings(db)
  /\ exifData = LoadExif(jpgFiles)
  /\ rawExifData = LoadExif(rawFiles)
  /\ selectedConflict = NoConflict
  /\ pc = "idle"
  /\ request = EmptyRequest
  /\ updateJobs = << >>
  /\ dbUpdatesCount = 0
  /\ results = << >>
  /\ response = NoResponse
  /\ badFiles = {}
  /\ log = << >>
  /\ flagged = {}
  /\ activeImage = << >>
  /\ activeExifData = Null
  /\ isExifLoading = FALSE
  /\ ratingConflictData = NoConflict
  /\ route = "/list"
  /\ resolution = "none"
  /\ inFlight = << >>

NextInFlight ==
  \/ SendRating
  \/ ServeRating
  \/ ReceiveResponse

SpecInFlight == InitInFlight /\ [][NextInFlight]_vars

\* C30: once every rating update has completed (none is in flight), the
\* record the page holds for each photo carries the rating and the overrule
\* flag of the photo's persisted record, whatever the order in which the
\* route served the requests and the page received the responses.
C30_CacheEqualsStoreWhenQuiet ==
  inFlight = << >> =>
    \A id \in DOMAIN ratings \cup DOMAIN db :
      /\ DbRatingOf(ratings, id) = DbRatingOf(db, id)
      /\ DbOverRuleOf(ratings, id) = DbOverRuleOf(db, id)

====
